---- MODULE Spec2Model ----
(***************************************************************************)
(* Model of overlays/uksouth-prod/olympus/metis/hacks/services.py: the     *)
(* Spreedly request dispatcher (blocking and asyncio variants), the vault  *)
(* credential refresh, and the card lifecycle operations built on them.    *)
(***************************************************************************)
EXTENDS Integers, Sequences, FiniteSets, TLC

VARIABLES pc, op, disp, adisp, Secrets, vault, ledger, result, vop, cred, script

vars ==
    <<pc, op, disp, adisp, Secrets, vault, ledger, result, vop, cred, script>>

(***************************************************************************)
(* Input domains.                                                          *)
(***************************************************************************)
\* HTTP status codes the proxy is taken to answer with.
StatusCodes == {200, 401, 404, 408, 422, 492, 500, 504}

\* Exceptions named by the except clause of the dispatcher loop
\* (requests.Timeout / builtin ConnectionError; httpx.TimeoutException /
\* httpx.ConnectError in the asyncio variant).
CaughtErrors == {"Timeout", "ConnectionError"}

\* Any other exception of the HTTP library (a requests.RequestException that
\* is neither a Timeout nor the builtin ConnectionError): not caught by the loop.
UncaughtErrors == {"RequestException"}

\* What one physical HTTP attempt does: a response with a status code, or an
\* exception raised by the HTTP library.
Response(status) == [kind |-> "response", status |-> status]
Raises(e) == [kind |-> e, status |-> 0]
NoOutcome == [kind |-> "none", status |-> 0]

Outcomes ==
    {Response(s) : s \in StatusCodes}
        \cup {Raises(e) : e \in CaughtErrors \cup UncaughtErrors}

\* resp = None (blocking variant), and resp not bound yet (asyncio variant).
None == 0
Unbound == -1

\* Highest version the secret backend rotates the two secrets to.
MaxCred == 2

(***************************************************************************)
(* Arithmetic.                                                             *)
(***************************************************************************)
RECURSIVE Pow(_, _)
Pow(b, e) == IF e = 0 THEN 1 ELSE b * Pow(b, e - 1)

(***************************************************************************)
(* refresh_oauth_credentials re-reads both secrets from the vault, one     *)
(* after the other, each by fetch_and_set_secret; a failed fetch (ok false)*)
(* is logged and leaves that secret as it was.                             *)
(***************************************************************************)
fetch_and_set_secret(S, V, name, ok) ==
    IF ok THEN [S EXCEPT ![name] = V[name]] ELSE S

(***************************************************************************)
(* The retry policy of the dispatcher.                                     *)
(***************************************************************************)
\* while attempts < 4
MaxAttemptsMut == 4 + 1
MaxAttempts == 4

\* if get_auth_attempts > 3: sleep(...)
AuthBackoffAfterMut == 3 - 1
AuthBackoffAfter == 3

\* if get_auth_attempts > 10: break
AuthLimitMut == 10 + 1
AuthLimitLaxMut == 10 + 2
AuthLimit == 10

\* resp.status_code in (500, 501, 502, 503, 504, 492)
RetryableStatus == {500, 501, 502, 503, 504, 492}

\* time.sleep(3**attempts - 1)
Backoff(attempts) == Pow(3, attempts) - 1

\* time.sleep(2**get_auth_attempts - 2)
AuthBackoffMut(k) == Pow(2, k) - 1
AuthBackoff(k) == Pow(2, k) - 2

(***************************************************************************)
(* Events of one loop iteration, in program order.                         *)
(***************************************************************************)
EvRequest == <<"request", 0>>
EvRefresh == <<"refresh", 0>>
EvAuthInc(k) == <<"auth_inc", k>>
EvReset == <<"reset", 0>>
EvSleep(n) == <<"sleep", n>>

IsSleep(e) == e[1] = "sleep"

\* The durations passed to sleep, in order.
RECURSIVE Waits(_)
Waits(log) ==
    IF log = <<>> THEN <<>>
    ELSE IF IsSleep(Head(log)) THEN <<Head(log)[2]>> \o Waits(Tail(log))
    ELSE Waits(Tail(log))

RECURSIVE SumSeq(_)
SumSeq(s) == IF s = <<>> THEN 0 ELSE Head(s) + SumSeq(Tail(s))

(***************************************************************************)
(* Dispatcher state: the locals of _send_retry_spreedly_request, plus what *)
(* the call has done so far (requests: physical attempts made, last: the   *)
(* outcome of the latest attempt once it has one, log: the events of the   *)
(* latest iteration, answered: some attempt obtained a response, sent: the *)
(* credentials the latest attempt was sent with), and where it is (state): *)
(* "running" at the loop condition, "requesting" inside the HTTP request,  *)
(* "refresh" and "fetch_username" inside refresh_oauth_credentials,        *)
(* "auth_sleeping" inside sleep(2**get_auth_attempts - 2), "sleeping"      *)
(* inside sleep(3**attempts - 1), "returned" / "raised" once it is over.   *)
(***************************************************************************)
IdleDispatch(unset) ==
    [state |-> "idle", attempts |-> 0, get_auth_attempts |-> 0, resp |-> unset,
     exc |-> "none", requests |-> 0, last |-> NoOutcome, log |-> <<>>,
     answered |-> FALSE, auth |-> <<0, 0>>, sent |-> <<0, 0>>]

\* Entry of the function: attempts = 0, get_auth_attempts = 0, and auth is the
\* pair the caller read from Secrets.
StartDispatch(unset, auth) ==
    [IdleDispatch(unset) EXCEPT !.state = "running", !.auth = auth]

\* The code after the while loop of the blocking variant.
SyncAfterLoopMut(d) == [d EXCEPT !.state = "returned"]
SyncAfterLoop(d) ==
    IF d.resp = None
    THEN [d EXCEPT !.state = "raised", !.exc = "ValueError"]
    ELSE [d EXCEPT !.state = "returned"]

\* The code after the while loop of the asyncio variant: return resp, where
\* resp is a local that no statement has bound if every attempt raised.
AsyncAfterLoop(d) ==
    IF d.resp = Unbound
    THEN [d EXCEPT !.state = "raised", !.exc = "UnboundLocalError"]
    ELSE [d EXCEPT !.state = "returned"]

\* while attempts < 4: the condition, evaluated when the sleep that ends an
\* iteration is over.
LoopTest(d, sync) ==
    IF d.attempts < MaxAttempts THEN [d EXCEPT !.state = "running"]
    ELSE IF sync THEN SyncAfterLoop(d) ELSE AsyncAfterLoop(d)

Break(d, sync) == IF sync THEN SyncAfterLoop(d) ELSE AsyncAfterLoop(d)

\* attempts += 1 and the call of requests.request / client.request, which
\* has not returned yet ("requesting").
BeginRequest(d) ==
    [d EXCEPT !.attempts = @ + 1, !.requests = @ + 1, !.last = NoOutcome,
              !.sent = d.auth, !.log = <<EvRequest>>, !.state = "requesting"]

\* if retry: sleep(3**attempts - 1): the dispatcher is inside the sleep
\* ("sleeping").
RetrySleep(d, sync) ==
    [d EXCEPT !.log = @ \o <<EvSleep(Backoff(d.attempts))>>,
              !.state = "sleeping"]

\* The 401 branch from its test of get_auth_attempts > 10 on.
On401Mut(d, sync) ==
    IF d.get_auth_attempts > AuthLimit
    THEN Break(d, sync)
    ELSE RetrySleep([d EXCEPT !.log = @ \o <<EvReset>>], sync)
On401(d, sync) ==
    IF d.get_auth_attempts > AuthLimit
    THEN Break(d, sync)
    ELSE RetrySleep([d EXCEPT !.attempts = 0, !.log = @ \o <<EvReset>>], sync)

\* refresh_oauth_credentials() has returned: get_auth_attempts += 1, then
\* either the dispatcher is inside sleep(2**get_auth_attempts - 2)
\* ("auth_sleeping") or it goes on with the branch.
RefreshReturns(d, sync) ==
    LET k == d.get_auth_attempts + 1
        d1 == [d EXCEPT !.get_auth_attempts = k,
                        !.log = @ \o <<EvRefresh, EvAuthInc(k)>>]
    IN  IF k > AuthBackoffAfter
        THEN [d1 EXCEPT !.log = @ \o <<EvSleep(AuthBackoff(k))>>,
                        !.state = "auth_sleeping"]
        ELSE On401(d1, sync)

\* The else branch of the try: classification of a response by status.  A
\* 401 enters refresh_oauth_credentials ("refresh": at its test of
\* AZURE_VAULT_URL, "fetch_username": between its two fetches).
OnResponseMut(d, status, sync) ==
    IF status = 401 THEN [d EXCEPT !.state = "refresh"]
    ELSE RetrySleep(d, sync)
OnResponse(d, status, sync) ==
    IF status = 401 THEN [d EXCEPT !.state = "refresh"]
    ELSE IF status \in RetryableStatus THEN RetrySleep(d, sync)
    ELSE Break(d, sync)

\* The HTTP call of an iteration ends, o being what it does: the except and
\* else clauses of the try, up to the next call that waits (the vault, a
\* sleep) or to the end of the function.
\* The blocking variant sets resp = None in its except clause; the asyncio
\* variant leaves resp as it was.
LoopBodyMut(d, o, sync) ==
    LET d0 == [d EXCEPT !.last = o]
    IN  IF o.kind \in UncaughtErrors
        THEN [d0 EXCEPT !.state = "raised", !.exc = o.kind]
        ELSE IF o.kind \in CaughtErrors
        THEN RetrySleep(d0, sync)
        ELSE OnResponse([d0 EXCEPT !.resp = o.status, !.answered = TRUE],
                        o.status, sync)
LoopBody(d, o, sync) ==
    LET d0 == [d EXCEPT !.last = o]
    IN  IF o.kind \in UncaughtErrors
        THEN [d0 EXCEPT !.state = "raised", !.exc = o.kind]
        ELSE IF o.kind \in CaughtErrors
        THEN RetrySleep(IF sync THEN [d0 EXCEPT !.resp = None] ELSE d0, sync)
        ELSE OnResponse([d0 EXCEPT !.resp = o.status, !.answered = TRUE],
                        o.status, sync)

send_retry_spreedly_request(d, o) == LoopBody(d, o, TRUE)

async_send_retry_spreedly_request(d, o) == LoopBody(d, o, FALSE)

Finished(d) == d.state \in {"returned", "raised"}

\* The call is over: its counters are gone, what it gave the caller and the
\* number of requests it made remain.
Left(d) == [d EXCEPT !.attempts = 0, !.get_auth_attempts = 0, !.log = <<>>]

(***************************************************************************)
(* Card data and the answers of the external collaborators (provider       *)
(* agents of metis.agents, the ledger client of metis.hermes).             *)
(***************************************************************************)
PartnerSlugs == {"amex", "mastercard", "visa"}

\* card_info["id"] of the card operated on.
CardId == 1

\* card_info.get("retry_id"): 0 is no retry id (absent or falsy).
RetryIds == {0, 7}

\* Largest number of activations a card carries.
MaxActivations == 2

\* Largest number of re-invocations in which a deactivation is still answered
\* RETRY.
MaxRounds == 2

\* VOPResultStatus values.
VopSuccess == "Success"
VopRetry == "Retry"
VopFailed == "Failed"
VOPResultStatus == {VopSuccess, VopRetry, VopFailed}

\* RetryTypes values.
RetryRemove == "remove"
RetryRedact == "redact"

\* A key the caller does not pass, a dict key that is missing.
Absent == "absent"
NoCode == -1

\* What agent.response_handler returns: status_code, bink_status (NoCode when
\* the key is missing), response_state, message, agent_status_code and
\* other_data["agent_card_uid"] (each "" when missing or empty).
\* isnone marks the value None, swapped a dict whose two values changed places.
ParsedResults ==
    [status_code : {200, 404}, bink_status : {NoCode, 2},
     response_state : {"", "Failed"}, message : {""},
     agent_status_code : {"", "RTMENRE0025"}, agent_card_uid : {"", "uid-1"},
     isnone : {FALSE}, swapped : {FALSE}]

NoneResult ==
    [status_code |-> 0, bink_status |-> NoCode, response_state |-> "",
     message |-> "", agent_status_code |-> "", agent_card_uid |-> "",
     isnone |-> TRUE, swapped |-> FALSE]

\* resp = {"status_code": 504, "message": "Bad or no response from Spreedly"}
BadResponse ==
    [status_code |-> 504, bink_status |-> NoCode, response_state |-> "",
     message |-> "Bad or no response from Spreedly", agent_status_code |-> "",
     agent_card_uid |-> "", isnone |-> FALSE, swapped |-> FALSE]

\* response_handler either returns a parsed result or raises AttributeError.
ParseOutcomes ==
    [raises : {FALSE}, value : ParsedResults]
        \cup {[raises |-> TRUE, value |-> NoneResult]}

\* The body of the redact response, as far as redact_card reads it.
RedactBodies == {"succeeded", "redacted", "neither", "empty", "nokeys", "invalid"}

\* agent.un_enroll's (response_state, status_code, agent_status_code,
\* agent_message).
UnenrollResults ==
    {<<VopSuccess, 201, "SUCCESS", "">>, <<VopRetry, 504, "", "timeout">>,
     <<VopFailed, 400, "RTMENRE0026", "not enrolled">>}

\* The orderings of 1..MaxActivations taken as activations dicts.
ActivationLists ==
    {a \in UNION {[1..n -> 1..MaxActivations] : n \in 0..MaxActivations} :
        \A i, j \in DOMAIN a : i # j => a[i] # a[j]}

(***************************************************************************)
(* Calls of put_account_status: the positional card status code and the    *)
(* keyword arguments (keys: the names of those passed).                    *)
(***************************************************************************)
BlankReport ==
    [code |-> NoCode, keys |-> {}, card_id |-> 0, response_action |-> Absent,
     response_state |-> Absent, response_status_code |-> 0,
     response_message |-> Absent, response_status |-> Absent,
     agent_card_uid |-> Absent, retry_id |-> 0, retry_type |-> Absent,
     deactivated_list |-> <<>>, deactivate_errors |-> <<>>]

WithRetryId(r, retry_id) ==
    IF retry_id # 0
    THEN [r EXCEPT !.retry_id = retry_id, !.keys = @ \cup {"retry_id"}]
    ELSE r

\* get_hermes_data(resp, card_id)
get_hermes_data(resp, card_id) ==
    LET h0 == [BlankReport EXCEPT !.card_id = card_id, !.response_action = "Add",
                                  !.keys = {"card_id", "response_action"}]
        h1 == IF resp.response_state # ""
              THEN [h0 EXCEPT !.response_state = resp.response_state,
                              !.keys = @ \cup {"response_state"}]
              ELSE h0
        h2 == IF resp.agent_card_uid # ""
              THEN [h1 EXCEPT !.agent_card_uid = resp.agent_card_uid,
                              !.keys = @ \cup {"agent_card_uid"}]
              ELSE h1
        h3 == IF resp.status_code # 0
              THEN [h2 EXCEPT !.response_status_code = resp.status_code,
                              !.keys = @ \cup {"response_status_code"}]
              ELSE h2
        h4 == IF resp.agent_status_code # ""
              THEN [h3 EXCEPT !.response_status = resp.agent_status_code,
                              !.keys = @ \cup {"response_status"}]
              ELSE h3
        h5 == IF resp.message # ""
              THEN [h4 EXCEPT !.response_message = resp.message,
                              !.keys = @ \cup {"response_message"}]
              ELSE h4
    IN  h5

\* The operation in progress: its name, the card's partner_slug and retry_id,
\* the calls of send_request it has made, and whether the agent raised
\* OAuthError when asked for the request body.
NoOp ==
    [name |-> "none", partner_slug |-> "", retry_id |-> 0, sends |-> 0,
     build_error |-> FALSE]

NoResult == [kind |-> "none", exc |-> "none", value |-> NoneResult]
Returned(v) == [kind |-> "returned", exc |-> "none", value |-> v]
Raised(e) == [kind |-> "raised", exc |-> e, value |-> NoneResult]

\* un_enroll has not been called.
NoUnenroll == <<"", 0, "", "">>

\* The locals of _remove_visa_card (i: the position of the loop in
\* activations.items()), and what the agent was asked and answered: answers
\* are the response_status values of the deactivate_card calls in order,
\* unenroll is what un_enroll returned.  round counts the re-invocations of
\* the flow for the same card by the task that retries it, earlier_unenrolls
\* the calls of un_enroll made in the invocations before this one.
NoVop ==
    [activations |-> <<>>, i |-> 0, deactivated_list |-> <<>>,
     deactivate_errors |-> <<>>, all_deactivated |-> TRUE,
     deactivate_calls |-> 0, unenroll_calls |-> 0,
     answers |-> <<>>, unenroll |-> NoUnenroll,
     round |-> 0, earlier_unenrolls |-> 0]

\* Two threads of the process at the credentials: one inside
\* refresh_oauth_credentials (wpc: the secret it fetches next; before: the
\* stored pair when it entered; failures: fetches that failed, a missing
\* vault URL counting as one), one evaluating the auth tuple of send_request
\* (rpc: the attribute it reads next; read: what it has read).
NoCred ==
    [wpc |-> "idle", before |-> <<0, 0>>, target |-> <<0, 0>>, failures |-> 0,
     rpc |-> "idle", read |-> <<0, 0>>]

(***************************************************************************)
(* Initial state: no operation in progress.                                *)
(***************************************************************************)
Init ==
    /\ pc = "idle"
    /\ op = NoOp
    /\ disp = IdleDispatch(None)
    /\ adisp = IdleDispatch(Unbound)
    /\ Secrets = [spreedly_oauth_username |-> 0, spreedly_oauth_password |-> 0]
    /\ vault = [spreedly_oauth_username |-> 0, spreedly_oauth_password |-> 0]
    /\ ledger = <<>>
    /\ result = NoResult
    /\ vop = NoVop
    /\ cred = NoCred
    /\ script = <<>>

\* auth=(Secrets.spreedly_oauth_username, Secrets.spreedly_oauth_password)
CurrentAuth == <<Secrets.spreedly_oauth_username, Secrets.spreedly_oauth_password>>

\* send_request(...) is entered: the blocking dispatcher starts.
CallSendRequest(name, slug, retry_id) ==
    /\ pc' = "dispatch"
    /\ op' = [name |-> name, partner_slug |-> slug, retry_id |-> retry_id,
              sends |-> 1, build_error |-> FALSE]
    /\ disp' = StartDispatch(None, CurrentAuth)
    /\ ledger' = <<>>
    /\ result' = NoResult
    /\ UNCHANGED <<adisp, Secrets, vault, vop, cred, script>>

\* The operation ends before any call of send_request.
EndEarly(name, slug, retry_id, build_error, reports, res) ==
    /\ pc' = "done"
    /\ op' = [name |-> name, partner_slug |-> slug, retry_id |-> retry_id,
              sends |-> 0, build_error |-> build_error]
    /\ ledger' = reports
    /\ result' = res
    /\ UNCHANGED <<disp, adisp, Secrets, vault, vop, cred, script>>

\* The operation ends after its dispatch.
EndOp(reports, res) ==
    /\ pc' = "done"
    /\ ledger' = reports
    /\ result' = res
    /\ disp' = Left(disp)
    /\ UNCHANGED <<op, adisp, Secrets, vault, vop, cred, script>>

(***************************************************************************)
(* The steps of a dispatcher inside send_request (sync) or                 *)
(* async_send_request (~sync): one step from each call that waits (the     *)
(* HTTP request, a fetch from the vault, a sleep) to the next.             *)
(***************************************************************************)
Dispatcher(sync) == IF sync THEN disp ELSE adisp

\* The call of that dispatcher is in progress.
Dispatching(sync) ==
    \/ pc = "pair"
    \/ pc = (IF sync THEN "dispatch" ELSE "adispatch")

SetDispatcher(sync, d) ==
    IF sync THEN disp' = d /\ adisp' = adisp ELSE adisp' = d /\ disp' = disp

\* What the proxy may do with the n-th request of a call: anything, or, when
\* two calls are compared, what the script says (its last entry repeating).
ScriptAt(n) == script[IF n > Len(script) THEN Len(script) ELSE n]
Answers(n) == IF pc = "pair" THEN {ScriptAt(n)} ELSE Outcomes

\* while attempts < 4: attempts += 1, and the request is made.
BeginAttempt(sync) ==
    /\ Dispatching(sync)
    /\ Dispatcher(sync).state = "running"
    /\ SetDispatcher(sync, BeginRequest(Dispatcher(sync)))
    /\ UNCHANGED <<pc, op, Secrets, vault, ledger, result, vop, cred, script>>

\* The request ends with outcome o.
Attempt(sync, o) ==
    /\ Dispatching(sync)
    /\ Dispatcher(sync).state = "requesting"
    /\ o \in Answers(Dispatcher(sync).requests)
    /\ SetDispatcher(sync, IF sync THEN send_retry_spreedly_request(disp, o)
                           ELSE async_send_retry_spreedly_request(adisp, o))
    /\ UNCHANGED <<pc, op, Secrets, vault, ledger, result, vop, cred, script>>

\* refresh_oauth_credentials: if settings.AZURE_VAULT_URL: the first
\* iteration of the loop over secret_defs (spreedly_oauth_password); else:
\* log and return.
FetchPassword(sync, url, ok) ==
    /\ Dispatching(sync)
    /\ Dispatcher(sync).state = "refresh"
    /\ IF url
       THEN /\ Secrets' = fetch_and_set_secret(Secrets, vault,
                                               "spreedly_oauth_password", ok)
            /\ SetDispatcher(sync, [Dispatcher(sync) EXCEPT
                                        !.state = "fetch_username"])
       ELSE /\ Secrets' = Secrets
            /\ SetDispatcher(sync, RefreshReturns(Dispatcher(sync), sync))
    /\ UNCHANGED <<pc, op, vault, ledger, result, vop, cred, script>>

\* The second iteration (spreedly_oauth_username); the function returns.
FetchUsername(sync, ok) ==
    /\ Dispatching(sync)
    /\ Dispatcher(sync).state = "fetch_username"
    /\ Secrets' = fetch_and_set_secret(Secrets, vault,
                                       "spreedly_oauth_username", ok)
    /\ SetDispatcher(sync, RefreshReturns(Dispatcher(sync), sync))
    /\ UNCHANGED <<pc, op, vault, ledger, result, vop, cred, script>>

\* sleep(2**get_auth_attempts - 2) is over.
AuthSleepEnds(sync) ==
    /\ Dispatching(sync)
    /\ Dispatcher(sync).state = "auth_sleeping"
    /\ SetDispatcher(sync, On401(Dispatcher(sync), sync))
    /\ UNCHANGED <<pc, op, Secrets, vault, ledger, result, vop, cred, script>>

\* sleep(3**attempts - 1) is over: the loop condition is evaluated.
SleepEnds(sync) ==
    /\ Dispatching(sync)
    /\ Dispatcher(sync).state = "sleeping"
    /\ SetDispatcher(sync, LoopTest(Dispatcher(sync), sync))
    /\ UNCHANGED <<pc, op, Secrets, vault, ledger, result, vop, cred, script>>

\* send_request has returned req_resp, or an exception left it.
SendRequestReturned == pc = "dispatch" /\ disp.state = "returned"
SendRequestRaised == pc = "dispatch" /\ disp.state = "raised"

(***************************************************************************)
(* add_card                                                                *)
(***************************************************************************)
\* Up to the call of send_request; build_ok: add_card_body does not raise
\* OAuthError.
AddCardMut(slug, retry_id, build_ok) ==
    /\ pc = "idle"
    /\ IF build_ok
       THEN CallSendRequest("add_card", slug, retry_id)
       ELSE EndEarly("add_card", slug, retry_id, TRUE,
                     <<[BlankReport EXCEPT !.code = 0, !.card_id = CardId,
                                           !.keys = {"card_id"}]>>,
                     Returned(NoneResult))
AddCard(slug, retry_id, build_ok) ==
    /\ pc = "idle"
    /\ IF build_ok
       THEN CallSendRequest("add_card", slug, retry_id)
       ELSE EndEarly("add_card", slug, retry_id, TRUE,
                     <<[BlankReport EXCEPT !.code = 5, !.card_id = CardId,
                                           !.keys = {"card_id"}]>>,
                     Returned(NoneResult))

\* card_status_code of add_card
AddCardStatusCodeMut(resp) ==
    IF resp.status_code = 200 THEN 1 ELSE 0
AddCardStatusCode(resp) ==
    IF resp.status_code = 200 THEN 1
    ELSE IF resp.bink_status = NoCode THEN 0 ELSE resp.bink_status

\* The report add_card sends for the parsed result resp of response req_status.
AddCardReportMut(resp, req_status, retry_id) ==
    LET h0 == get_hermes_data(resp, CardId)
        h1 == IF req_status \in {422}
              THEN [h0 EXCEPT !.response_state = "Retry",
                              !.keys = @ \cup {"response_state"}]
              ELSE h0
    IN  [WithRetryId(h1, retry_id) EXCEPT !.code = AddCardStatusCode(resp)]
AddCardReport(resp, req_status, retry_id) ==
    LET h0 == get_hermes_data(resp, CardId)
        h1 == IF req_status \in {422, 408}
              THEN [h0 EXCEPT !.response_state = "Retry",
                              !.keys = @ \cup {"response_state"}]
              ELSE h0
    IN  [WithRetryId(h1, retry_id) EXCEPT !.code = AddCardStatusCode(resp)]

\* From the return of send_request to the end.
AddCardFinishMut(parse) ==
    /\ op.name = "add_card"
    /\ \/ /\ SendRequestReturned
          /\ LET resp == IF parse.raises THEN BadResponse ELSE parse.value
             IN  EndOp(<<AddCardReport(resp, disp.resp, op.retry_id)>>,
                       Returned(resp))
       \/ /\ SendRequestRaised
          /\ op' = [op EXCEPT !.sends = @ + 1]
          /\ disp' = StartDispatch(None, CurrentAuth)
          /\ UNCHANGED <<pc, adisp, Secrets, vault, ledger, result, vop, cred, script>>
AddCardFinish(parse) ==
    /\ op.name = "add_card"
    /\ \/ /\ SendRequestReturned
          /\ LET resp == IF parse.raises THEN BadResponse ELSE parse.value
             IN  EndOp(<<AddCardReport(resp, disp.resp, op.retry_id)>>,
                       Returned(resp))
       \/ /\ SendRequestRaised
          /\ EndOp(<<>>, Raised(disp.exc))

(***************************************************************************)
(* remove_card for amex and mastercard                                     *)
(***************************************************************************)
RemoveCard(slug, retry_id, build_ok) ==
    /\ pc = "idle"
    /\ slug # "visa"
    /\ IF build_ok
       THEN CallSendRequest("remove_card", slug, retry_id)
       ELSE EndEarly("remove_card", slug, retry_id, TRUE,
                     <<[BlankReport EXCEPT !.code = 5, !.card_id = CardId,
                                           !.retry_type = RetryRemove,
                                           !.keys = {"card_id", "retry_type"}]>>,
                     Returned(NoneResult))

RemoveCardFinish(parse) ==
    /\ op.name = "remove_card"
    /\ \/ /\ SendRequestReturned
          /\ IF parse.raises
             THEN EndOp(<<>>, Raised("AttributeError"))
             ELSE EndOp(<<>>, Returned(parse.value))
       \/ /\ SendRequestRaised
          /\ EndOp(<<>>, Raised(disp.exc))

(***************************************************************************)
(* reactivate_card                                                         *)
(***************************************************************************)
ReactivateCardMut(slug, retry_id) ==
    /\ pc = "idle"
    /\ CallSendRequest("reactivate_card", slug, retry_id)
ReactivateCard(slug, retry_id) ==
    /\ pc = "idle"
    /\ IF slug # "mastercard"
       THEN EndEarly("reactivate_card", slug, retry_id, FALSE, <<>>,
                     Raised("ValueError"))
       ELSE CallSendRequest("reactivate_card", slug, retry_id)

ReactivateCardFinish(parse) ==
    /\ op.name = "reactivate_card"
    /\ \/ /\ SendRequestReturned
          /\ IF parse.raises
             THEN EndOp(<<>>, Raised("AttributeError"))
             ELSE IF parse.value.status_code # 200 /\ parse.value.bink_status = NoCode
             THEN EndOp(<<>>, Raised("KeyError"))
             ELSE EndOp(<<[BlankReport EXCEPT
                             !.code = IF parse.value.status_code = 200 THEN 1
                                      ELSE parse.value.bink_status,
                             !.card_id = CardId, !.keys = {"card_id"}]>>,
                        Returned(parse.value))
       \/ /\ SendRequestRaised
          /\ EndOp(<<>>, Raised(disp.exc))

(***************************************************************************)
(* redact_card                                                             *)
(***************************************************************************)
RedactCard(retry_id) ==
    /\ pc = "idle"
    /\ CallSendRequest("redact_card", "", retry_id)

\* put_account_status(code, card_info["id"], response_action=..., ...)
RedactReport(code) ==
    [BlankReport EXCEPT !.code = code, !.card_id = CardId,
                        !.response_action = "action_code",
                        !.response_state = VopRetry,
                        !.retry_type = RetryRedact,
                        !.keys = {"card_id", "response_action", "response_state",
                                  "retry_type"}]

RedactCardFinish(body) ==
    /\ op.name = "redact_card"
    /\ \/ /\ SendRequestRaised
          /\ IF disp.exc = "RequestException"
             THEN EndOp(<<RedactReport(5)>>, Returned(NoneResult))
             ELSE EndOp(<<>>, Raised(disp.exc))
       \/ /\ SendRequestReturned
          /\ IF disp.resp = 404
             THEN EndOp(<<>>, Returned(NoneResult))
             ELSE IF disp.resp >= 200 /\ disp.resp < 300
             THEN CASE body = "invalid" -> EndOp(<<>>, Raised("JSONDecodeError"))
                    [] body = "nokeys" -> EndOp(<<>>, Raised("KeyError"))
                    [] body \in {"succeeded", "redacted"} ->
                           EndOp(<<>>, Returned(NoneResult))
                    [] OTHER -> EndOp(<<RedactReport(6)>>, Returned(NoneResult))
             ELSE EndOp(<<RedactReport(6)>>, Returned(NoneResult))

(***************************************************************************)
(* remove_card for visa: _remove_visa_card                                 *)
(***************************************************************************)
RemoveVisaCard(retry_id, activations) ==
    /\ pc = "idle"
    /\ pc' = "deactivate"
    /\ op' = [name |-> "remove_visa_card", partner_slug |-> "visa",
              retry_id |-> retry_id, sends |-> 0, build_error |-> FALSE]
    /\ vop' = [NoVop EXCEPT !.activations = activations, !.i = 1]
    /\ ledger' = <<>>
    /\ result' = NoResult
    /\ UNCHANGED <<disp, adisp, Secrets, vault, cred, script>>

\* The body of the loop over activations.items() for the activation at
\* position v.i, response_status being what agent.deactivate_card answers.
deactivate_oneBothMut(v, response_status) ==
    LET a == v.activations[v.i]
        v0 == [v EXCEPT !.i = @ + 1, !.deactivate_calls = @ + 1,
                        !.answers = Append(@, response_status),
                        !.deactivated_list = Append(@, a)]
    IN  IF response_status = VopSuccess
        THEN v0
        ELSE [v0 EXCEPT
                !.deactivate_errors = Append(@, <<a, response_status>>),
                !.all_deactivated =
                    IF response_status = VopRetry THEN FALSE ELSE @]
deactivate_oneStopMut(v, response_status) ==
    LET a == v.activations[v.i]
        v0 == [v EXCEPT !.i = @ + 1, !.deactivate_calls = @ + 1,
                        !.answers = Append(@, response_status)]
    IN  IF response_status = VopSuccess
        THEN [v0 EXCEPT !.deactivated_list = Append(@, a)]
        ELSE [v0 EXCEPT
                !.i = Len(v.activations) + 1,
                !.deactivate_errors = Append(@, <<a, response_status>>),
                !.all_deactivated =
                    IF response_status = VopRetry THEN FALSE ELSE @]
deactivate_one(v, response_status) ==
    LET a == v.activations[v.i]
        v0 == [v EXCEPT !.i = @ + 1, !.deactivate_calls = @ + 1,
                        !.answers = Append(@, response_status)]
    IN  IF response_status = VopSuccess
        THEN [v0 EXCEPT !.deactivated_list = Append(@, a)]
        ELSE [v0 EXCEPT
                !.deactivate_errors = Append(@, <<a, response_status>>),
                !.all_deactivated =
                    IF response_status = VopRetry THEN FALSE ELSE @]

\* One iteration of the loop over activations.items().
Deactivate(response_status) ==
    /\ pc = "deactivate"
    /\ vop.i <= Len(vop.activations)
    /\ vop' = deactivate_one(vop, response_status)
    /\ UNCHANGED <<pc, op, disp, adisp, Secrets, vault, ledger, result, cred, script>>

\* After the loop: un_enroll is called unless there were activations and
\* some deactivation can be retried (if activations: ... if not all_deactivated:
\* call back and return).
ProceedsToUnenrollMut(v) == TRUE
ProceedsToUnenrollLastMut(v) ==
    v.activations = <<>> \/ v.answers[Len(v.answers)] # VopRetry
ProceedsToUnenroll(v) == v.activations = <<>> \/ v.all_deactivated

\* hermes_unenroll_call_back(...)
hermes_unenroll_call_backMut(retry_id, deactivated_list, deactivate_errors, response_state, agent_status_code, agent_message, retry_type) ==
    WithRetryId(
        [BlankReport EXCEPT
            !.code = NoCode, !.card_id = CardId,
            !.response_state = VopRetry,
            !.response_status = agent_status_code,
            !.response_message = agent_message,
            !.response_action = "Delete",
            !.deactivated_list = deactivated_list,
            !.deactivate_errors = deactivate_errors,
            !.retry_type = retry_type,
            !.keys = {"card_id", "response_state", "response_status",
                      "response_message", "response_action", "deactivated_list",
                      "deactivate_errors", "retry_type"}],
        retry_id)
hermes_unenroll_call_back(retry_id, deactivated_list, deactivate_errors, response_state, agent_status_code, agent_message, retry_type) ==
    WithRetryId(
        [BlankReport EXCEPT
            !.code = NoCode, !.card_id = CardId,
            !.response_state = response_state,
            !.response_status = agent_status_code,
            !.response_message = agent_message,
            !.response_action = "Delete",
            !.deactivated_list = deactivated_list,
            !.deactivate_errors = deactivate_errors,
            !.retry_type = retry_type,
            !.keys = {"card_id", "response_state", "response_status",
                      "response_message", "response_action", "deactivated_list",
                      "deactivate_errors", "retry_type"}],
        retry_id)

\* The dict _remove_visa_card returns.  hermes_unenroll_call_back returns the
\* set {response_state, status_code} and the caller unpacks it into two
\* names; the iteration order of a set holding a str and an int or None is
\* not fixed, so the two values arrive in order or swapped.
VopReturn(response_state, status_code, swapped) ==
    Returned([NoneResult EXCEPT !.isnone = FALSE,
                                !.response_state = response_state,
                                !.status_code = status_code,
                                !.swapped = swapped])

\* After the loop: the interim report, or un_enroll and the final report.
RemoveVisaCardFinish(unenroll, swapped) ==
    /\ pc = "deactivate"
    /\ vop.i > Len(vop.activations)
    /\ pc' = "done"
    /\ IF ~ProceedsToUnenroll(vop)
       THEN /\ ledger' = <<hermes_unenroll_call_back(
                              op.retry_id, vop.deactivated_list,
                              vop.deactivate_errors, VopRetry, "",
                              "Cannot unenrol some Activations still active and can be retried",
                              RetryRemove)>>
            /\ result' = VopReturn(VopRetry, 0, swapped)
            /\ vop' = vop
       ELSE /\ ledger' = <<hermes_unenroll_call_back(
                              op.retry_id, vop.deactivated_list,
                              vop.deactivate_errors, unenroll[1], unenroll[3],
                              unenroll[4], RetryRemove)>>
            /\ result' = VopReturn(unenroll[1], unenroll[2], swapped)
            /\ vop' = [vop EXCEPT !.unenroll_calls = @ + 1,
                                  !.unenroll = unenroll]
    /\ UNCHANGED <<op, disp, adisp, Secrets, vault, cred, script>>

(***************************************************************************)
(* create_sftp_receiver returns what send_request returns and reports      *)
(* nothing.                                                                *)
(***************************************************************************)
CreateSftpReceiver ==
    /\ pc = "idle"
    /\ CallSendRequest("create_sftp_receiver", "", 0)

CreateSftpReceiverFinish ==
    /\ op.name = "create_sftp_receiver"
    /\ \/ /\ SendRequestReturned
          /\ EndOp(<<>>, Returned([NoneResult EXCEPT !.isnone = FALSE,
                                                     !.status_code = disp.resp]))
       \/ /\ SendRequestRaised
          /\ EndOp(<<>>, Raised(disp.exc))

(***************************************************************************)
(* The asyncio operations: create_receiver, create_prod_receiver and       *)
(* retain_payment_method_token return what async_send_request returns.     *)
(***************************************************************************)
AsyncOperations ==
    {"create_receiver", "create_prod_receiver", "retain_payment_method_token"}

AsyncCall(name) ==
    /\ pc = "idle"
    /\ pc' = "adispatch"
    /\ op' = [name |-> name, partner_slug |-> "", retry_id |-> 0, sends |-> 1,
              build_error |-> FALSE]
    /\ adisp' = StartDispatch(Unbound, CurrentAuth)
    /\ ledger' = <<>>
    /\ result' = NoResult
    /\ UNCHANGED <<disp, Secrets, vault, vop, cred, script>>

AsyncFinish ==
    /\ pc = "adispatch"
    /\ Finished(adisp)
    /\ pc' = "done"
    /\ result' = IF adisp.state = "raised" THEN Raised(adisp.exc)
                 ELSE Returned([NoneResult EXCEPT !.isnone = FALSE,
                                                  !.status_code = adisp.resp])
    /\ adisp' = Left(adisp)
    /\ UNCHANGED <<op, disp, Secrets, vault, ledger, vop, cred, script>>

\* The caller has the outcome; the next operation can start.
Return ==
    /\ pc = "done"
    /\ pc' = "idle"
    /\ op' = NoOp
    /\ disp' = IdleDispatch(None)
    /\ adisp' = IdleDispatch(Unbound)
    /\ ledger' = <<>>
    /\ result' = NoResult
    /\ vop' = NoVop
    /\ UNCHANGED <<Secrets, vault, cred, script>>

Next ==
    \/ \E s \in PartnerSlugs, r \in RetryIds, b \in BOOLEAN : AddCard(s, r, b)
    \/ \E p \in ParseOutcomes : AddCardFinish(p)
    \/ \E s \in PartnerSlugs, r \in RetryIds, b \in BOOLEAN : RemoveCard(s, r, b)
    \/ \E p \in ParseOutcomes : RemoveCardFinish(p)
    \/ \E s \in PartnerSlugs, r \in RetryIds : ReactivateCard(s, r)
    \/ \E p \in ParseOutcomes : ReactivateCardFinish(p)
    \/ \E r \in RetryIds : RedactCard(r)
    \/ \E b \in RedactBodies : RedactCardFinish(b)
    \/ \E r \in RetryIds, a \in ActivationLists : RemoveVisaCard(r, a)
    \/ \E st \in VOPResultStatus : Deactivate(st)
    \/ \E u \in UnenrollResults, w \in BOOLEAN : RemoveVisaCardFinish(u, w)
    \/ CreateSftpReceiver
    \/ CreateSftpReceiverFinish
    \/ \E n \in AsyncOperations : AsyncCall(n)
    \/ \E sync \in BOOLEAN : BeginAttempt(sync)
    \/ \E sync \in BOOLEAN, o \in Outcomes : Attempt(sync, o)
    \/ \E sync, url, ok \in BOOLEAN : FetchPassword(sync, url, ok)
    \/ \E sync, ok \in BOOLEAN : FetchUsername(sync, ok)
    \/ \E sync \in BOOLEAN : AuthSleepEnds(sync)
    \/ \E sync \in BOOLEAN : SleepEnds(sync)
    \/ AsyncFinish
    \/ Return

Spec == Init /\ [][Next]_vars

(***************************************************************************)
(* The credentials under concurrency: the secret backend rotating the two  *)
(* secrets, a thread running refresh_oauth_credentials statement by        *)
(* statement, and a thread evaluating                                      *)
(* (Secrets.spreedly_oauth_username, Secrets.spreedly_oauth_password).     *)
(***************************************************************************)
Pair(S) == <<S.spreedly_oauth_username, S.spreedly_oauth_password>>

\* The backend replaces both secrets by their next version.
VaultRotate ==
    /\ vault.spreedly_oauth_username < MaxCred
    /\ vault' = [spreedly_oauth_username |-> vault.spreedly_oauth_username + 1,
                 spreedly_oauth_password |-> vault.spreedly_oauth_password + 1]
    /\ UNCHANGED <<pc, op, disp, adisp, Secrets, ledger, result, vop, cred, script>>

\* refresh_oauth_credentials is entered; without AZURE_VAULT_URL it logs an
\* error and is over.
RefreshBegin(url) ==
    /\ cred.wpc = "idle"
    /\ cred' = [cred EXCEPT !.wpc = IF url THEN "password" ELSE "done",
                            !.before = Pair(Secrets), !.target = Pair(vault),
                            !.failures = IF url THEN 0 ELSE 1]
    /\ UNCHANGED <<pc, op, disp, adisp, Secrets, vault, ledger, result, vop, script>>

\* First iteration of the loop over secret_defs: spreedly_oauth_password.
RefreshPassword(ok) ==
    /\ cred.wpc = "password"
    /\ Secrets' = fetch_and_set_secret(Secrets, vault, "spreedly_oauth_password", ok)
    /\ cred' = [cred EXCEPT !.wpc = "username",
                            !.failures = IF ok THEN @ ELSE @ + 1]
    /\ UNCHANGED <<pc, op, disp, adisp, vault, ledger, result, vop, script>>

\* Second iteration: spreedly_oauth_username.
RefreshUsername(ok) ==
    /\ cred.wpc = "username"
    /\ Secrets' = fetch_and_set_secret(Secrets, vault, "spreedly_oauth_username", ok)
    /\ cred' = [cred EXCEPT !.wpc = "done",
                            !.failures = IF ok THEN @ ELSE @ + 1]
    /\ UNCHANGED <<pc, op, disp, adisp, vault, ledger, result, vop, script>>

\* refresh_oauth_credentials has returned to the dispatcher.
RefreshEnd ==
    /\ cred.wpc = "done"
    /\ cred' = [cred EXCEPT !.wpc = "idle", !.failures = 0]
    /\ UNCHANGED <<pc, op, disp, adisp, Secrets, vault, ledger, result, vop, script>>

\* The tuple expression reads Secrets.spreedly_oauth_username first ...
ReadUsername ==
    /\ cred.rpc = "idle"
    /\ cred' = [cred EXCEPT !.rpc = "password",
                            !.read = <<Secrets.spreedly_oauth_username, 0>>]
    /\ UNCHANGED <<pc, op, disp, adisp, Secrets, vault, ledger, result, vop, script>>

\* ... and Secrets.spreedly_oauth_password second.
ReadPassword ==
    /\ cred.rpc = "password"
    /\ cred' = [cred EXCEPT !.rpc = "done",
                            !.read = <<cred.read[1], Secrets.spreedly_oauth_password>>]
    /\ UNCHANGED <<pc, op, disp, adisp, Secrets, vault, ledger, result, vop, script>>

\* The dispatch that was given the tuple is over.
ReadEnd ==
    /\ cred.rpc = "done"
    /\ cred' = [cred EXCEPT !.rpc = "idle", !.read = <<0, 0>>]
    /\ UNCHANGED <<pc, op, disp, adisp, Secrets, vault, ledger, result, vop, script>>

CredNext ==
    \/ VaultRotate
    \/ \E url \in BOOLEAN : RefreshBegin(url)
    \/ \E ok \in BOOLEAN : RefreshPassword(ok)
    \/ \E ok \in BOOLEAN : RefreshUsername(ok)
    \/ RefreshEnd
    \/ ReadUsername
    \/ ReadPassword
    \/ ReadEnd

SpecCred == Init /\ [][CredNext]_vars

(***************************************************************************)
(* A call of send_request and a call of async_send_request, each running   *)
(* at its own pace, whose n-th requests the proxy answers alike.           *)
(***************************************************************************)
\* Longest script, the outcomes two compared calls are fed, and the scripts.
MaxScript == 3
PairOutcomes ==
    {Response(200), Response(401), Response(500), Raises("Timeout")}
Scripts ==
    UNION {[1..n -> PairOutcomes] : n \in 1..MaxScript}

PairStart(sc) ==
    /\ pc = "idle"
    /\ pc' = "pair"
    /\ script' = sc
    /\ disp' = StartDispatch(None, CurrentAuth)
    /\ adisp' = StartDispatch(Unbound, CurrentAuth)
    /\ UNCHANGED <<op, Secrets, vault, ledger, result, vop, cred>>

PairNext ==
    \/ \E sc \in Scripts : PairStart(sc)
    \/ \E sync \in BOOLEAN : BeginAttempt(sync)
    \/ \E sync \in BOOLEAN, o \in PairOutcomes : Attempt(sync, o)
    \/ \E sync, url, ok \in BOOLEAN : FetchPassword(sync, url, ok)
    \/ \E sync, ok \in BOOLEAN : FetchUsername(sync, ok)
    \/ \E sync \in BOOLEAN : AuthSleepEnds(sync)
    \/ \E sync \in BOOLEAN : SleepEnds(sync)

SpecPair == Init /\ [][PairNext]_vars

(***************************************************************************)
(* The visa remove flow re-invoked by the task that retries it ("We will   *)
(* retry this call until all de-activations are done then unenrol.  We     *)
(* call back after each deactivation so that if we retry only the          *)
(* remaining activations will be sent to this service").                   *)
(***************************************************************************)
\* The activations a report leaves to be retried: those of its error map
\* whose response_status is RETRY, in the order of the map.
RECURSIVE PendingActivations(_)
PendingActivations(errors) ==
    IF errors = <<>> THEN <<>>
    ELSE (IF Head(errors)[2] = VopRetry THEN <<Head(errors)[1]>> ELSE <<>>)
             \o PendingActivations(Tail(errors))

\* The report of the invocation that has just ended leaves activations to be
\* retried.
RetryPending ==
    /\ pc = "done"
    /\ op.name = "remove_visa_card"
    /\ Len(ledger) = 1
    /\ PendingActivations(ledger[1].deactivate_errors) # <<>>

\* The flow is invoked again for the same card with the remaining activations.
Redeliver ==
    /\ RetryPending
    /\ pc' = "deactivate"
    /\ vop' = [NoVop EXCEPT
                 !.activations = PendingActivations(ledger[1].deactivate_errors),
                 !.i = 1,
                 !.round = vop.round + 1,
                 !.earlier_unenrolls = vop.earlier_unenrolls + vop.unenroll_calls]
    /\ ledger' = <<>>
    /\ result' = NoResult
    /\ UNCHANGED <<op, disp, adisp, Secrets, vault, cred, script>>

\* deactivate_card answers RETRY in the first MaxRounds re-invocations at most.
DeactivateRound(response_status) ==
    /\ response_status = VopRetry => vop.round < MaxRounds
    /\ Deactivate(response_status)

\* Nothing is left to retry: the task is over.
RoundsReturn ==
    /\ ~RetryPending
    /\ Return

RoundsNext ==
    \/ \E r \in RetryIds, a \in ActivationLists : RemoveVisaCard(r, a)
    \/ \E st \in VOPResultStatus : DeactivateRound(st)
    \/ \E u \in UnenrollResults, w \in BOOLEAN : RemoveVisaCardFinish(u, w)
    \/ Redeliver
    \/ RoundsReturn

\* The code runs to its end and the task is delivered again while
\* activations are left to retry.
SpecRounds == Init /\ [][RoundsNext]_vars /\ WF_vars(RoundsNext)

(***************************************************************************)
(* A caller of send_request while the secret backend rotates the secrets:  *)
(* the refresh a 401 leads to then changes what Secrets holds.             *)
(***************************************************************************)
AuthNext ==
    \/ VaultRotate
    \/ RedactCard(0)
    \/ BeginAttempt(TRUE)
    \/ \E o \in Outcomes : Attempt(TRUE, o)
    \/ \E url, ok \in BOOLEAN : FetchPassword(TRUE, url, ok)
    \/ \E ok \in BOOLEAN : FetchUsername(TRUE, ok)
    \/ AuthSleepEnds(TRUE)
    \/ SleepEnds(TRUE)
    \/ \E b \in RedactBodies : RedactCardFinish(b)
    \/ Return

SpecAuth == Init /\ [][AuthNext]_vars

(***************************************************************************)
(* Properties of the dispatcher.                                           *)
(***************************************************************************)
\* A call of the blocking dispatcher is in progress or has just ended.
InDispatch == pc \in {"dispatch", "pair"}

\* The dispatcher is in the middle of a loop iteration: inside the HTTP
\* request, inside refresh_oauth_credentials, or inside a sleep.
MidIteration(d) ==
    d.state \in {"requesting", "refresh", "fetch_username", "auth_sleeping",
                 "sleeping"}

IsStatus(o) == o.kind = "response"
IsTransportError(o) == o.kind \in {"Timeout", "ConnectionError"}
IsRetryableStatus(o) == IsStatus(o) /\ o.status \in {500, 501, 502, 503, 504, 492}
IsTerminalStatus(o) == IsStatus(o) /\ o.status # 401 /\ ~IsRetryableStatus(o)

\* The events of an iteration other than the sleeps.
RECURSIVE Steps(_)
Steps(log) ==
    IF log = <<>> THEN <<>>
    ELSE IF IsSleep(Head(log)) THEN Steps(Tail(log))
    ELSE <<Head(log)>> \o Steps(Tail(log))

\* C1: in a dispatch in which no attempt was answered 401, at most 4 physical
\* attempts are made, and every attempt, whether it ended in a retryable
\* status or in a timeout / connection error, took exactly one of the 4.
C1_AttemptBudget ==
    (InDispatch /\ disp.get_auth_attempts = 0)
        => (disp.requests <= 4 /\ disp.attempts = disp.requests)

C1_Witness ==
    /\ pc = "dispatch"
    /\ disp.get_auth_attempts = 0
    /\ disp.requests = 4
    /\ disp.last = Raises("Timeout")
    /\ disp.answered
    /\ Finished(disp)

\* C2: after the n-th consecutive retryable failure, n in 1..3, the dispatcher
\* waits 3^n - 1 seconds (2, 8, 26), and after the 4th attempt it does not
\* wait at all.
C2_BackoffSchedule ==
    (InDispatch /\ (IsTransportError(disp.last) \/ IsRetryableStatus(disp.last)))
        => Waits(disp.log) =
              CASE disp.attempts = 1 -> <<2>>
                [] disp.attempts = 2 -> <<8>>
                [] disp.attempts = 3 -> <<26>>
                [] OTHER -> <<>>

\* C3: an attempt answered 401 enters the credential refresh, and the
\* iteration of one that leaves the auth-retry counter at 10 or less has
\* done, in this order, one credential refresh, one increment of the
\* auth-retry counter, a reset of the attempt counter to 0, and leaves the
\* dispatch ready for another attempt; no step lowers the auth-retry
\* counter, and only the refresh after a 401 changes it, by one.
C3_Reauthenticate ==
    [][(InDispatch /\ pc' = pc /\ disp' # disp) =>
          /\ disp'.get_auth_attempts >= disp.get_auth_attempts
          /\ disp'.last # Response(401) =>
                 disp'.get_auth_attempts = disp.get_auth_attempts
          /\ disp'.get_auth_attempts # disp.get_auth_attempts =>
                 /\ disp'.get_auth_attempts = disp.get_auth_attempts + 1
                 /\ disp.state \in {"refresh", "fetch_username"}
                 /\ disp.last = Response(401)
          /\ (disp.state = "requesting" /\ disp'.last = Response(401)) =>
                 (disp'.state = "refresh" /\ Steps(disp'.log) = <<EvRequest>>)
          /\ (/\ disp.last = Response(401)
              /\ MidIteration(disp)
              /\ ~MidIteration(disp')
              /\ disp.get_auth_attempts <= 10) =>
                 /\ disp'.get_auth_attempts = disp.get_auth_attempts
                 /\ Steps(disp'.log) =
                        <<EvRequest, EvRefresh,
                          EvAuthInc(disp.get_auth_attempts), EvReset>>
                 /\ disp'.attempts = 0
                 /\ disp'.state = "running"]_vars

C3_Witness ==
    /\ pc = "dispatch"
    /\ disp.last = Response(401)
    /\ disp.get_auth_attempts = 2
    /\ disp.requests = 5
    /\ disp.attempts = 0
    /\ disp.state = "running"

\* C4: after the k-th 401 of a dispatch, no secondary delay is applied when
\* k <= 3 (the only sleep is the 0 second one), and when k > 3 a delay of
\* 2^k - 2 seconds is applied before the next attempt.
C4_AuthBackoff ==
    (InDispatch /\ disp.last = Response(401) /\ ~MidIteration(disp)) =>
        LET k == disp.get_auth_attempts
        IN  /\ k <= 3 => Waits(disp.log) = <<0>>
            /\ (k > 3 /\ disp.state = "running") =>
                   Waits(disp.log) = <<Pow(2, k) - 2, 0>>
            /\ k > 3 => SumSeq(Waits(disp.log)) = Pow(2, k) - 2

C4_Witness ==
    /\ pc = "dispatch"
    /\ disp.last = Response(401)
    /\ disp.get_auth_attempts = 5
    /\ disp.state = "running"
    /\ Waits(disp.log) = <<30, 0>>

\* C5: when the auth-retry counter exceeds 10, the dispatch is over: it makes
\* no further attempt (it is in the sleep of that 401, or has returned) and
\* returns the 401 response it just received as a normal value, not as an
\* exception.
C5_AuthExhausted ==
    (InDispatch /\ disp.get_auth_attempts > 10) =>
        /\ disp.get_auth_attempts = 11
        /\ disp.state \in {"auth_sleeping", "returned"}
        /\ ~MidIteration(disp) => disp.state = "returned"
        /\ disp.exc = "none"
        /\ disp.last = Response(401)
        /\ disp.resp = 401

C5_Witness ==
    /\ pc = "dispatch"
    /\ disp.get_auth_attempts = 11
    /\ disp.state = "returned"
    /\ disp.resp = 401

\* C6: a response whose status is neither 401 nor one of 500..504, 492 ends
\* the dispatch at once: it is returned as it is, no sleep follows it and no
\* further attempt is made, whatever the two counters are.
C6_TerminalStatus ==
    (InDispatch /\ IsTerminalStatus(disp.last)) =>
        /\ disp.state = "returned"
        /\ disp.exc = "none"
        /\ disp.resp = disp.last.status
        /\ Waits(disp.log) = <<>>

C6_Witness ==
    /\ pc = "dispatch"
    /\ disp.last = Response(404)
    /\ disp.attempts = 3
    /\ disp.get_auth_attempts = 2
    /\ disp.state = "returned"
    /\ disp.resp = 404

\* C7: a dispatch that ends without any attempt having obtained a response
\* ends in an exception, never in a returned value, and when its four
\* attempts all ended in a timeout / connection error the exception is
\* ValueError; a dispatch whose last attempt got a terminal status is never
\* ended by an exception.
C7_TransportFailure ==
    InDispatch =>
        /\ (Finished(disp) /\ ~disp.answered) => disp.state = "raised"
        /\ (/\ disp.attempts = 4
            /\ ~disp.answered
            /\ IsTransportError(disp.last)
            /\ ~MidIteration(disp)) =>
               (disp.state = "raised" /\ disp.exc = "ValueError")
        /\ IsTerminalStatus(disp.last) =>
               (disp.state = "returned" /\ disp.exc = "none")

C7_Witness ==
    /\ pc = "dispatch"
    /\ disp.requests = 4
    /\ ~disp.answered
    /\ disp.last = Raises("ConnectionError")
    /\ disp.state = "raised"
    /\ disp.exc = "ValueError"

\* C8: fed the same attempt outcomes, the blocking and the asyncio dispatcher
\* make the same number of attempts, ask for the same waits, and end the
\* same way: both return the same response, or both fail.
C8_SamePolicy ==
    (pc = "pair" /\ Finished(disp) /\ Finished(adisp)) =>
        /\ disp.requests = adisp.requests
        /\ Waits(disp.log) = Waits(adisp.log)
        /\ disp.state = adisp.state
        /\ disp.state = "returned" => disp.resp = adisp.resp

\* C9: whatever statuses and transport errors the attempts end in,
\* send_request gives its caller a value and raises nothing.
C9_NoExceptionEscapes ==
    (pc = "dispatch" /\ disp.last.kind \notin UncaughtErrors)
        => disp.state # "raised"

\* C10: every add_card, remove_card or reactivate_card that went through a
\* dispatch ends with exactly one outcome reported to the ledger.
C10_OneReport ==
    (/\ pc = "done"
     /\ op.name \in {"add_card", "remove_card", "remove_visa_card",
                     "reactivate_card"}
     /\ op.sends = 1
     /\ disp.last.kind \notin UncaughtErrors)
        => Len(ledger) = 1

(***************************************************************************)
(* Properties of the credentials.                                          *)
(***************************************************************************)
\* C11: a reader of (username, password) that runs while the credentials are
\* refreshed, no fetch failing, gets the complete pair stored before the
\* refresh or the complete pair of the backend, never one secret of each.
C11_AtomicRefresh ==
    (cred.rpc = "done" /\ cred.wpc # "idle" /\ cred.failures = 0)
        => cred.read \in {cred.before, cred.target}

\* C12: a refresh in which the backend failed (for either secret, or for want
\* of a vault URL) leaves the stored pair as it was before the refresh.
C12_FailedRefreshKeepsPair ==
    (cred.wpc = "done" /\ cred.failures > 0) => Pair(Secrets) = cred.before

(***************************************************************************)
(* Properties of the visa remove flow.                                     *)
(***************************************************************************)
InVisaRemove == op.name = "remove_visa_card" /\ pc \in {"deactivate", "done"}

\* The activations whose deactivation was answered with a status in S, and
\* the (activation, status) pairs of those answered with a status in S, both
\* in the order of the calls.
RECURSIVE Answered(_, _, _)
Answered(acts, answers, S) ==
    IF answers = <<>> THEN <<>>
    ELSE (IF Head(answers) \in S THEN <<Head(acts)>> ELSE <<>>)
             \o Answered(Tail(acts), Tail(answers), S)

RECURSIVE AnsweredWith(_, _, _)
AnsweredWith(acts, answers, S) ==
    IF answers = <<>> THEN <<>>
    ELSE (IF Head(answers) \in S THEN <<<<Head(acts), Head(answers)>>>> ELSE <<>>)
             \o AnsweredWith(Tail(acts), Tail(answers), S)

SeqRange(q) == {q[j] : j \in DOMAIN q}
ErrorKeys(errors) == {errors[j][1] : j \in DOMAIN errors}
SomeRetry == \E j \in DOMAIN vop.answers : vop.answers[j] = VopRetry

\* C13: one invocation of _remove_visa_card calls un_enroll at most once, and
\* only if none of its deactivations was answered RETRY; an invocation in
\* which one was answered RETRY ends without a call of un_enroll.
C13_UnenrollGuard ==
    InVisaRemove =>
        /\ vop.unenroll_calls <= 1
        /\ vop.unenroll_calls = 1 => ~SomeRetry
        /\ (pc = "done" /\ SomeRetry) => vop.unenroll_calls = 0

C13_Witness ==
    /\ InVisaRemove
    /\ pc = "done"
    /\ vop.answers = <<VopSuccess, VopRetry>>
    /\ vop.unenroll_calls = 0
    /\ Len(ledger) = 1

\* C14: when some deactivation is answered RETRY, the interim report lists in
\* deactivated_list the activations answered SUCCESS and its error map has
\* no entry for an activation answered RETRY.
C14_InterimReportClaimed ==
    (InVisaRemove /\ pc = "done" /\ SomeRetry) =>
        /\ Len(ledger) = 1
        /\ ledger[1].deactivated_list =
               Answered(vop.activations, vop.answers, {VopSuccess})
        /\ ErrorKeys(ledger[1].deactivate_errors)
               \cap SeqRange(Answered(vop.activations, vop.answers, {VopRetry}))
               = {}

\* C15: when no deactivation is answered RETRY, un_enroll is called once, after
\* every activation has been through deactivate_card, and the one report has
\* deactivated_list = the activations answered SUCCESS, deactivate_errors
\* keyed by exactly those answered FAILED, and the state, status and message
\* un_enroll returned.
C15_FinalReport ==
    (InVisaRemove /\ pc = "done" /\ ~SomeRetry) =>
        /\ vop.unenroll_calls = 1
        /\ vop.deactivate_calls = Len(vop.activations)
        /\ Len(ledger) = 1
        /\ ledger[1].deactivated_list =
               Answered(vop.activations, vop.answers, {VopSuccess})
        /\ ErrorKeys(ledger[1].deactivate_errors) =
               SeqRange(Answered(vop.activations, vop.answers, {VopFailed}))
        /\ Len(ledger[1].deactivate_errors) =
               Len(Answered(vop.activations, vop.answers, {VopFailed}))
        /\ ledger[1].response_state = vop.unenroll[1]
        /\ ledger[1].response_status = vop.unenroll[3]
        /\ ledger[1].response_message = vop.unenroll[4]

C15_Witness ==
    /\ InVisaRemove
    /\ pc = "done"
    /\ vop.activations = <<1, 2>>
    /\ vop.answers = <<VopSuccess, VopFailed>>
    /\ vop.unenroll_calls = 1
    /\ vop.unenroll[1] = VopSuccess
    /\ ledger[1].deactivated_list = <<1>>
    /\ ledger[1].deactivate_errors = <<<<2, VopFailed>>>>
    /\ ledger[1].response_state = VopSuccess

\* C16: at every point of a visa remove, an activation the loop has been
\* through is in exactly one of deactivated_list and deactivate_errors, and
\* one it has not reached yet is in neither.
C16_ListOrMap ==
    InVisaRemove =>
        \A j \in DOMAIN vop.activations :
            LET a == vop.activations[j]
                inList == a \in SeqRange(vop.deactivated_list)
                inMap == a \in ErrorKeys(vop.deactivate_errors)
            IN  IF j < vop.i THEN inList # inMap ELSE ~inList /\ ~inMap

C16_Witness ==
    /\ InVisaRemove
    /\ pc = "deactivate"
    /\ Len(vop.activations) = 2
    /\ vop.i = 2
    /\ vop.answers = <<VopRetry>>
    /\ vop.deactivate_errors = <<<<vop.activations[1], VopRetry>>>>
    /\ vop.deactivated_list = <<>>

(***************************************************************************)
(* Properties of add_card, remove_card and reactivate_card.                *)
(***************************************************************************)
\* add_card has run to its end and returned the parsed result.
AddCardReturned ==
    /\ pc = "done"
    /\ op.name = "add_card"
    /\ result.kind = "returned"
    /\ ~result.value.isnone

\* C17: the code add_card reports is 1 when the parsed result has status 200;
\* for any other parsed status it is the bink_status of the parsed result,
\* and 0 when the parsed result has none.
C17_AddOutcomeCode ==
    AddCardReturned =>
        /\ Len(ledger) = 1
        /\ ledger[1].code =
               IF result.value.status_code = 200 THEN 1
               ELSE IF result.value.bink_status = NoCode THEN 0
               ELSE result.value.bink_status

C17_Witness ==
    /\ AddCardReturned
    /\ result.value.status_code = 404
    /\ result.value.bink_status = 2
    /\ ledger[1].code = 2

\* C18: when the dispatch of add_card returned status 422 or 408 the report
\* has response_state "Retry" whatever response_state the agent parsed; for
\* any other dispatch status the report has the parsed response_state (and no
\* response_state when the parsed result has none).
C18_RetryRequested ==
    AddCardReturned =>
        /\ Len(ledger) = 1
        /\ IF disp.resp \in {422, 408}
           THEN /\ ledger[1].response_state = "Retry"
                /\ "response_state" \in ledger[1].keys
           ELSE IF result.value.response_state = ""
           THEN /\ ledger[1].response_state = Absent
                /\ "response_state" \notin ledger[1].keys
           ELSE /\ ledger[1].response_state = result.value.response_state
                /\ "response_state" \in ledger[1].keys

C18_Witness ==
    /\ AddCardReturned
    /\ disp.resp = 408
    /\ result.value.response_state = "Failed"
    /\ ledger[1].response_state = "Retry"

\* C19: when the agent raises OAuthError on building the body, add_card and
\* non-visa remove_card report code 5 once, never enter the dispatcher (no
\* HTTP attempt is made) and return None.
C19_BuildError ==
    (pc = "done" /\ op.name \in {"add_card", "remove_card"} /\ op.build_error) =>
        /\ Len(ledger) = 1
        /\ ledger[1].code = 5
        /\ ledger[1].card_id = CardId
        /\ op.sends = 0
        /\ disp.state = "idle"
        /\ disp.requests = 0
        /\ result.kind = "returned"
        /\ result.value.isnone

C19_Witness ==
    /\ pc = "done"
    /\ op.name = "remove_card"
    /\ op.partner_slug = "amex"
    /\ op.build_error
    /\ Len(ledger) = 1
    /\ ledger[1].code = 5
    /\ disp.requests = 0

\* C20: in add_card, remove_card and reactivate_card, when the agent cannot
\* parse the response the dispatch returned, the operation ends with the
\* result of status 504 and the fixed message; the parse error (AttributeError)
\* never leaves the operation.
C20_ParseDegrades ==
    (/\ pc = "done"
     /\ op.name \in {"add_card", "remove_card", "reactivate_card"}
     /\ disp.state = "returned")
        => result.exc # "AttributeError"

\* C21: a non-visa remove_card whose dispatch has completed, with a success
\* as well as with a failure status, has reported the outcome to the ledger
\* once it returns.
C21_RemoveReports ==
    (/\ pc = "done"
     /\ op.name = "remove_card"
     /\ op.partner_slug \in {"amex", "mastercard"}
     /\ disp.state = "returned"
     /\ result.kind = "returned")
        => Len(ledger) >= 1

\* C22: reactivate_card for a partner_slug other than mastercard raises
\* ValueError without calling send_request: no HTTP attempt is made, nothing
\* is reported to the ledger, and the operation is over at once.
C22_ReactivateUnsupported ==
    (op.name = "reactivate_card" /\ op.partner_slug # "mastercard") =>
        /\ pc = "done"
        /\ result = Raised("ValueError")
        /\ ledger = <<>>
        /\ op.sends = 0
        /\ disp.state = "idle"
        /\ disp.requests = 0

C22_Witness ==
    /\ pc = "done"
    /\ op.name = "reactivate_card"
    /\ op.partner_slug = "visa"
    /\ result.exc = "ValueError"
    /\ ledger = <<>>
    /\ disp.requests = 0

\* C23: when the card carries a retry_id, every report that add_card,
\* remove_card (visa or not) or reactivate_card sends to the ledger carries
\* that retry_id, the report of the build-error path included.
C23_RetryIdReported ==
    (/\ pc = "done"
     /\ op.name \in {"add_card", "remove_card", "remove_visa_card",
                     "reactivate_card"}
     /\ op.retry_id # 0)
        => \A j \in DOMAIN ledger :
               /\ "retry_id" \in ledger[j].keys
               /\ ledger[j].retry_id = op.retry_id

\* C24: redact_card whose dispatch returned a response ends normally; for
\* status 404 it reports nothing; for a 2xx status it reports nothing (the
\* body says succeeded or redacted) or sends one report with response_state
\* Retry, retry type REDACT and the fixed code (success fields false or
\* absent); for any other status it sends that one report.
IsRedactRetryReport(r) ==
    /\ r.response_state = VopRetry
    /\ r.retry_type = RetryRedact
    /\ r.code = 6

C24_RedactClassification ==
    (pc = "done" /\ op.name = "redact_card" /\ disp.state = "returned") =>
        /\ result.kind = "returned"
        /\ disp.resp = 404 => ledger = <<>>
        /\ (disp.resp >= 200 /\ disp.resp < 300) =>
               \/ ledger = <<>>
               \/ Len(ledger) = 1 /\ IsRedactRetryReport(ledger[1])
        /\ (disp.resp # 404 /\ ~(disp.resp >= 200 /\ disp.resp < 300)) =>
               Len(ledger) = 1 /\ IsRedactRetryReport(ledger[1])

(***************************************************************************)
(* Further properties of the dispatcher.                                   *)
(***************************************************************************)
\* C25: when the latest attempt of a dispatch was answered 401 and the
\* refresh it led to replaced the stored credentials by those of the
\* backend, the next attempt of that dispatch is sent with the stored
\* (refreshed) credentials.
C25_RefreshedCredentials ==
    [][(/\ pc = "dispatch"
        /\ disp.state = "running"
        /\ disp.last = Response(401)
        /\ Pair(Secrets) = Pair(vault)
        /\ Pair(Secrets) # disp.sent
        /\ pc' = pc
        /\ disp'.requests = disp.requests + 1)
           => disp'.sent = Pair(Secrets)]_vars

\* C26: a dispatch makes at most 44 physical attempts: at most 11 of them are
\* answered 401, at most 4 attempts follow the latest reset of the attempt
\* counter, each of the first 10 answers of 401 closes a run of at most 4
\* attempts, and a dispatch that is still running has made fewer than 44.
C26_BoundedAttempts ==
    InDispatch =>
        LET k == disp.get_auth_attempts
        IN  /\ disp.requests <= 44
            /\ k <= 11
            /\ disp.attempts <= 4
            /\ disp.requests <= 4 * (IF k > 10 THEN 10 ELSE k) + disp.attempts
            /\ disp.state = "running" =>
                   (disp.attempts < 4 /\ k <= 10 /\ disp.requests < 44)

C26_Witness ==
    /\ pc = "dispatch"
    /\ disp.requests = 44
    /\ disp.get_auth_attempts = 10
    /\ disp.attempts = 4
    /\ disp.last = Response(500)
    /\ disp.state = "returned"

\* C27: the blocking dispatcher returns if and only if its last attempt
\* obtained a response, and then returns that response (also when it is a
\* retryable status that exhausted the attempts); when the last attempt ended
\* in a timeout / connection error it raises ValueError, also when an earlier
\* attempt had obtained a response.
C27_LastResponse ==
    (InDispatch /\ Finished(disp)) =>
        /\ (disp.state = "returned") <=> IsStatus(disp.last)
        /\ disp.state = "returned" =>
               (disp.resp = disp.last.status /\ disp.exc = "none")
        /\ IsTransportError(disp.last) =>
               (disp.state = "raised" /\ disp.exc = "ValueError")

C27_Witness ==
    /\ pc = "dispatch"
    /\ Finished(disp)
    /\ disp.answered
    /\ disp.get_auth_attempts = 1
    /\ disp.last = Raises("ConnectionError")
    /\ disp.state = "raised"
    /\ disp.exc = "ValueError"

\* C28: after an attempt answered 401 that leaves the auth-retry counter at 3
\* or less, the waits asked for before the next attempt add up to 0 seconds,
\* and the next attempt is due.
C28_NoWaitOnReauth ==
    (/\ InDispatch
     /\ disp.last = Response(401)
     /\ ~MidIteration(disp)
     /\ disp.get_auth_attempts <= 3) =>
        /\ SumSeq(Waits(disp.log)) = 0
        /\ disp.state = "running"
        /\ disp.attempts = 0

C28_Witness ==
    /\ pc = "dispatch"
    /\ disp.last = Response(401)
    /\ disp.get_auth_attempts = 3
    /\ disp.requests = 9
    /\ SumSeq(Waits(disp.log)) = 0
    /\ disp.state = "running"

(***************************************************************************)
(* Further properties of the visa remove flow.                             *)
(***************************************************************************)
\* C30: one invocation of _remove_visa_card calls deactivate_card once for
\* every activation it was given, in the order given, whatever the answers
\* are; nothing is reported before the last of those calls, and exactly one
\* report is sent after it; given no activations it calls none and goes to
\* un_enroll.
C30_EveryActivationOnce ==
    InVisaRemove =>
        /\ vop.deactivate_calls = Len(vop.answers)
        /\ pc = "deactivate" =>
               /\ ledger = <<>>
               /\ vop.unenroll_calls = 0
               /\ vop.deactivate_calls = vop.i - 1
        /\ pc = "done" =>
               /\ vop.deactivate_calls = Len(vop.activations)
               /\ Len(ledger) = 1
               /\ ledger[1].deactivated_list =
                      Answered(vop.activations, vop.answers, {VopSuccess})
               /\ ledger[1].deactivate_errors =
                      AnsweredWith(vop.activations, vop.answers,
                                   {VopRetry, VopFailed})
               /\ vop.activations = <<>> =>
                      (vop.deactivate_calls = 0 /\ vop.unenroll_calls = 1)

C30_Witness ==
    /\ InVisaRemove
    /\ pc = "done"
    /\ vop.activations = <<2, 1>>
    /\ vop.answers = <<VopFailed, VopRetry>>
    /\ vop.deactivate_calls = 2
    /\ Len(ledger) = 1
    /\ ledger[1].deactivate_errors = <<<<2, VopFailed>>, <<1, VopRetry>>>>

\* C29: over the invocations of the visa remove flow for one card, each
\* re-invocation being given the activations left to retry: un_enroll is not
\* called in an invocation in which some deactivation is answered RETRY, it
\* is called at most once over all of them, and, RETRY answers ceasing, it is
\* eventually called: exactly once.
UnenrollsSoFar == vop.earlier_unenrolls + vop.unenroll_calls

C29_UnenrollAfterRetries ==
    /\ [](InVisaRemove =>
             /\ vop.unenroll_calls = 1 => ~SomeRetry
             /\ UnenrollsSoFar <= 1)
    /\ (op.name = "remove_visa_card" /\ pc = "deactivate")
           ~> (pc = "done" /\ UnenrollsSoFar = 1)

C29_Witness ==
    /\ InVisaRemove
    /\ pc = "done"
    /\ vop.round >= 1
    /\ vop.earlier_unenrolls = 0
    /\ vop.unenroll_calls = 1
    /\ Len(vop.activations) = 1
    /\ vop.answers = <<VopSuccess>>

(***************************************************************************)
(* Further properties of the operations.                                   *)
(***************************************************************************)
\* C31: redact_card whose dispatch ended with its last attempt in a timeout /
\* connection error ends normally, having sent exactly one report, with
\* response_state Retry and retry type REDACT.
C31_RedactTransportFailure ==
    (pc = "done" /\ op.name = "redact_card" /\ IsTransportError(disp.last)) =>
        /\ result.kind = "returned"
        /\ Len(ledger) = 1
        /\ ledger[1].response_state = VopRetry
        /\ ledger[1].retry_type = RetryRedact

\* C32: add_card, non-visa remove_card, reactivate_card and redact_card call
\* send_request at most once per invocation, and send no report between that
\* call and the end of the dispatch: a report made after the call finds the
\* dispatch finished, all its attempts made.
C32_SingleDispatch ==
    op.name \in {"add_card", "remove_card", "reactivate_card", "redact_card"} =>
        /\ op.sends <= 1
        /\ pc = "dispatch" => ledger = <<>>
        /\ (op.sends = 1 /\ ledger # <<>>) => (pc = "done" /\ Finished(disp))
        /\ pc = "done" => (op.sends = 1 <=> disp.requests >= 1)
        /\ (pc = "done" /\ op.sends = 1) => Finished(disp)

C32_Witness ==
    /\ pc = "done"
    /\ op.name = "add_card"
    /\ op.sends = 1
    /\ disp.requests = 4
    /\ disp.last = Response(500)
    /\ disp.state = "returned"
    /\ Len(ledger) = 1

====
